---- MODULE Spec2Model ----
(***************************************************************************)
(* Model of integral_convolve.py: the lattice/distance model, the operator *)
(* builder (cross_correlation, matrix_entry, get_filter), the forcing      *)
(* function discretizers (f, g, discretized_f, discretized_g) and the      *)
(* error study (plot_error).                                               *)
(*                                                                         *)
(* Real numbers are exact rationals [num, den] in lowest terms with        *)
(* den > 0.  A kernel is an uninterpreted function of the distance, so a   *)
(* matrix entry is the term  c + k * fn(at)  kept as [c, k, fn, at]; two   *)
(* equal terms are equal numbers for every kernel.  The piecewise factor   *)
(* of g is kept as its branch and its argument.  Floating-point rounding   *)
(* is not modelled.                                                        *)
(***************************************************************************)
EXTENDS Integers, Sequences, FiniteSets, TLC

\* ------------------------------------------------------------ bounds
\* largest resolution n the function calls are applied to
MaxN == 5
\* the function calls are also applied to n = 0 and to n = -1 .. -NegN
NegN == 2
\* g is evaluated at x, y = a/GDen for a in -1 .. GDen+1
GDen == 4

\* ------------------------------------------------------ rational numbers
Abs(a) == IF a < 0 THEN 0 - a ELSE a

RECURSIVE GCD(_, _)
GCD(a, b) == IF b = 0 THEN a ELSE GCD(b, a % b)

\* Python's a // b and a % b on ints (floor division; the remainder has the
\* sign of the divisor), for b # 0
PyFloorDiv(a, b) == a \div b
PyMod(a, b) == a - b * (a \div b)

\* Python's true division p / q of two ints, q # 0, as an exact rational
Rat(p, q) ==
    LET s == IF q < 0 THEN 0 - 1 ELSE 1
        g == GCD(Abs(p), Abs(q))
    IN  [num |-> (s * p) \div g, den |-> (s * q) \div g]

RAdd(a, b) == Rat(a.num * b.den + b.num * a.den, a.den * b.den)
RSub(a, b) == Rat(a.num * b.den - b.num * a.den, a.den * b.den)
RMul(a, b) == Rat(a.num * b.num, a.den * b.den)
RAbs(a) == [num |-> Abs(a.num), den |-> a.den]
RLt(a, b) == a.num * b.den < b.num * a.den
RLe(a, b) == a.num * b.den <= b.num * a.den

\* ------------------------------------------------- lattice and distance
point_rowonly(i, n) == << Rat(PyFloorDiv(i, n), n), Rat(PyFloorDiv(i, n), n) >>

\* x1 = (i//n)/n; y1 = (i%n)/n; point1 = np.array([x1,y1])
point(i, n) == << Rat(PyFloorDiv(i, n), n), Rat(PyMod(i, n), n) >>

diff_noabs(point1, point2) ==
    << RSub(point1[1], point2[1]), RSub(point1[2], point2[2]) >>

\* diff = np.abs(point1-point2)
diff(point1, point2) ==
    << RAbs(RSub(point1[1], point2[1])), RAbs(RSub(point1[2], point2[2])) >>

\* np.where(d<1/2, d, 1-d), one component
where(d) == IF RLt(d, Rat(1, 2)) THEN d ELSE RSub(Rat(1, 1), d)

distance_nowrap(d) == RAdd(d[1], d[2])

\* distance = np.sum(np.where(diff<1/2, diff, 1-diff))
distance(d) == RAdd(where(d[1]), where(d[2]))

\* ------------------------------------------------------------- kernels
\* exp_kernel, and one more kernel standing for any other function of the
\* distance that a caller passes as kernel_func
Kernels == {"exp_kernel", "radial_kernel"}
Lambs == {0, 1, 2}

\* entry = (1/n**2)*kernel_func(distance): the term 0 + (1/n^2) * fn(at)
matrix_entry(i, j, n, kernel_func) ==
    [c  |-> Rat(0, 1),
     k  |-> Rat(1, n * n),
     fn |-> kernel_func,
     at |-> distance(diff(point(i, n), point(j, n)))]

\* matrix_entry divides by n (ZeroDivisionError for n = 0)
matrix_entry_raises(n) == n = 0

\* lamb * entry   and   entry + 1
Scale(lamb, e) == [e EXCEPT !.k = RMul(Rat(lamb, 1), e.k)]
AddOne(e) == [e EXCEPT !.c = RAdd(e.c, Rat(1, 1))]

\* exp_kernel(0) = np.exp(-0) = 1: the number a term at distance 0 stands
\* for under exp_kernel
exp_kernel_at_zero(e) == RAdd(e.c, e.k)

cross_correlation_diag0(n, kernel_func, lamb) ==
    [i \in 0 .. (n * n - 1) |->
        [j \in 0 .. (n * n - 1) |->
            LET e == Scale(lamb, matrix_entry(i, j, n, kernel_func))
            IN  IF j = 0 THEN AddOne(e) ELSE e]]

\* result[i,j] = lamb*matrix_entry(i,j,n,kernel_func), + 1 where i == j
cross_correlation(n, kernel_func, lamb) ==
    [i \in 0 .. (n * n - 1) |->
        [j \in 0 .. (n * n - 1) |->
            LET e == Scale(lamb, matrix_entry(i, j, n, kernel_func))
            IN  IF i = j THEN AddOne(e) ELSE e]]

\* the call as a whole: it raises when a matrix_entry it evaluates raises
\* (none is evaluated when range(n**2) is empty) and returns result otherwise
cross_correlation_call(n, kernel_func, lamb) ==
    IF \E i, j \in 0 .. (n * n - 1) : matrix_entry_raises(n)
    THEN [outcome |-> "raised", value |-> << >>]
    ELSE [outcome |-> "returned",
          value |-> cross_correlation(n, kernel_func, lamb)]

get_filter_noidentity(N, kernel_func, lamb) ==
    [k \in 1 .. (N * N) |-> Scale(lamb, matrix_entry(0, k - 1, N, kernel_func))]

\* m = [lamb*matrix_entry(0,0,N)+1] followed by lamb*matrix_entry(0,j,N)
\* for j in range(1, N**2)
get_filter(N, kernel_func, lamb) ==
    << AddOne(Scale(lamb, matrix_entry(0, 0, N, kernel_func))) >>
    \o [k \in 1 .. (N * N - 1) |->
            Scale(lamb, matrix_entry(0, k, N, kernel_func))]

\* the first entry is evaluated unconditionally
get_filter_call(N, kernel_func, lamb) ==
    IF matrix_entry_raises(N)
    THEN [outcome |-> "raised", value |-> << >>]
    ELSE [outcome |-> "returned", value |-> get_filter(N, kernel_func, lamb)]

\* ---------------------------------------------------- forcing functions
\* f(x, y) = (x-x**3)*(y-y**3)
f(x, y) ==
    RMul(RSub(x, RMul(x, RMul(x, x))), RSub(y, RMul(y, RMul(y, y))))

func_open_half(x) ==
    IF RLe(Rat(0, 1), x) /\ RLt(x, Rat(1, 2))
    THEN [outcome |-> "returned", branch |-> "low", at |-> x]
    ELSE IF RLt(Rat(1, 2), x) /\ RLe(x, Rat(1, 1))
         THEN [outcome |-> "returned", branch |-> "high", at |-> x]
         ELSE [outcome |-> "raised", branch |-> "none", at |-> x]

\* the piecewise factor inside g: the branch for 0 <= x < 0.5, the branch
\* for 0.5 <= x <= 1, and raise Exception("should not get here") otherwise
func(x) ==
    IF RLe(Rat(0, 1), x) /\ RLt(x, Rat(1, 2))
    THEN [outcome |-> "returned", branch |-> "low", at |-> x]
    ELSE IF RLe(Rat(1, 2), x) /\ RLe(x, Rat(1, 1))
         THEN [outcome |-> "returned", branch |-> "high", at |-> x]
         ELSE [outcome |-> "raised", branch |-> "none", at |-> x]

\* g(x, y, lamb) = f(x, y) + lamb*vfunc(x)*vfunc(y): the term
\* f + lamb * hx * hy, or the exception of vfunc(x) or of vfunc(y)
g(x, y, lamb) ==
    LET hx == func(x)
        hy == func(y)
    IN  IF hx.outcome = "raised" \/ hy.outcome = "raised"
        THEN [outcome |-> "raised", value |-> << >>]
        ELSE [outcome |-> "returned",
              value |-> [f |-> f(x, y), lamb |-> lamb, hx |-> hx, hy |-> hy]]

RECURSIVE discretized_f_loop(_, _, _, _)
\* for i in range(N): for j in range(N): vec.append(f(i/N, j/N))
discretized_f_loop(vec, i, j, N) ==
    IF i >= N THEN vec
    ELSE IF j >= N THEN discretized_f_loop(vec, i + 1, 0, N)
    ELSE discretized_f_loop(Append(vec, f(Rat(i, N), Rat(j, N))), i, j + 1, N)

discretized_f_shifted(N) ==
    [k \in 1 .. (IF N > 0 THEN N * N ELSE 0) |->
        f(Rat((k - 1) \div N, N), Rat(((k - 1) % N) + 1, N))]

\* vec = []; the two loops; return np.array(vec)
discretized_f(N) == discretized_f_loop(<< >>, 0, 0, N)

discretized_f_call(N) == [outcome |-> "returned", value |-> discretized_f(N)]

RECURSIVE discretized_g_loop(_, _, _, _, _)
\* for i in range(N): for j in range(N): vec.append(g(i/N, j/N, lamb)); an
\* exception of g ends the call
discretized_g_loop(vec, i, j, lamb, N) ==
    IF i >= N THEN [outcome |-> "returned", value |-> vec]
    ELSE IF j >= N THEN discretized_g_loop(vec, i + 1, 0, lamb, N)
    ELSE LET r == g(Rat(i, N), Rat(j, N), lamb)
         IN  IF r.outcome = "raised"
             THEN [outcome |-> "raised", value |-> << >>]
             ELSE discretized_g_loop(Append(vec, r.value), i, j + 1, lamb, N)

discretized_g(lamb, N) == discretized_g_loop(<< >>, 0, 0, lamb, N)

\* ------------------------------------------------------------ the state
VARIABLES
    pc,                    \* "calls": the lattice functions are applied to
                           \* drawn arguments; "g": g is; otherwise the
                           \* position in plot_error
    n, kernel_func, lamb,  \* the arguments (plot_error: its locals n, kernel, lamb)
    x, y,                  \* the arguments of g
    ret_cross_correlation, \* what each call ended in: outcome and value
    ret_get_filter,
    ret_discretized_f,
    ret_discretized_g,
    ret_g,
    index,                 \* plot_error: resolutions taken from ns so far
    A, g_vec, sol, kappa, f_vec,   \* plot_error: locals of the loop body
    err,                   \* plot_error: the error series
    console,               \* plot_error: what was printed
    coeffs,                \* plot_error: what np.polyfit was given
    saved                  \* plot_error: the figure written

vars == << pc, n, kernel_func, lamb, x, y, ret_cross_correlation,
           ret_get_filter, ret_discretized_f, ret_discretized_g, ret_g,
           index, A, g_vec, sol, kappa, f_vec, err, console, coeffs, saved >>

Pending == [outcome |-> "pending", value |-> << >>]
Unbound == [fn |-> "unbound"]

ns_descending == << 64, 32, 16, 8, 4 >>

\* ns = np.array([4,8,16,32,64])
ns == << 4, 8, 16, 32, 64 >>

Init ==
    /\ pc \in {"calls", "g", "plot_error"}
    /\ CASE pc = "calls" ->
              /\ n \in (0 - NegN) .. MaxN
              /\ kernel_func \in Kernels
              /\ lamb \in Lambs
         [] pc = "g" ->
              /\ n = 0
              /\ kernel_func = "unbound"
              /\ lamb \in Lambs
         [] OTHER ->
              /\ n = 0
              /\ kernel_func = "unbound"
              /\ lamb = 0
    /\ x = Rat(0, 1)
    /\ y = Rat(0, 1)
    /\ ret_cross_correlation = Pending
    /\ ret_get_filter = Pending
    /\ ret_discretized_f = Pending
    /\ ret_discretized_g = Pending
    /\ ret_g = Pending
    /\ index = 0
    /\ A = Unbound
    /\ g_vec = Unbound
    /\ sol = Unbound
    /\ kappa = Unbound
    /\ f_vec = Unbound
    /\ err = << >>
    /\ console = << >>
    /\ coeffs = Unbound
    /\ saved = "none"

plotvars == << index, A, g_vec, sol, kappa, f_vec, err, console, coeffs, saved >>

\* ------------------------------------------------- the function calls
call_cross_correlation ==
    /\ pc = "calls"
    /\ ret_cross_correlation = Pending
    /\ ret_cross_correlation' = cross_correlation_call(n, kernel_func, lamb)
    /\ UNCHANGED << pc, n, kernel_func, lamb, x, y, ret_get_filter,
                    ret_discretized_f, ret_discretized_g, ret_g, plotvars >>

call_get_filter ==
    /\ pc = "calls"
    /\ ret_get_filter = Pending
    /\ ret_get_filter' = get_filter_call(n, kernel_func, lamb)
    /\ UNCHANGED << pc, n, kernel_func, lamb, x, y, ret_cross_correlation,
                    ret_discretized_f, ret_discretized_g, ret_g, plotvars >>

call_discretized_f ==
    /\ pc = "calls"
    /\ ret_discretized_f = Pending
    /\ ret_discretized_f' = discretized_f_call(n)
    /\ UNCHANGED << pc, n, kernel_func, lamb, x, y, ret_cross_correlation,
                    ret_get_filter, ret_discretized_g, ret_g, plotvars >>

call_discretized_g ==
    /\ pc = "calls"
    /\ ret_discretized_g = Pending
    /\ ret_discretized_g' = discretized_g(lamb, n)
    /\ UNCHANGED << pc, n, kernel_func, lamb, x, y, ret_cross_correlation,
                    ret_get_filter, ret_discretized_f, ret_g, plotvars >>

call_g ==
    /\ pc = "g"
    /\ ret_g = Pending
    /\ \E a, b \in (0 - 1) .. (GDen + 1) :
          /\ x' = Rat(a, GDen)
          /\ y' = Rat(b, GDen)
          /\ ret_g' = g(x', y', lamb)
    /\ UNCHANGED << pc, n, kernel_func, lamb, ret_cross_correlation,
                    ret_get_filter, ret_discretized_f, ret_discretized_g,
                    plotvars >>

\* ----------------------------------------------------------- plot_error
callrets == << x, y, ret_cross_correlation, ret_get_filter,
               ret_discretized_f, ret_discretized_g, ret_g >>

\* kernel = exp_kernel; lamb = 1; err = []; ns = ...
plot_error_start ==
    /\ pc = "plot_error"
    /\ kernel_func' = "exp_kernel"
    /\ lamb' = 1
    /\ err' = << >>
    /\ index' = 0
    /\ pc' = "for"
    /\ UNCHANGED << n, A, g_vec, sol, kappa, f_vec, console, coeffs, saved,
                    callrets >>

\* for index, n in enumerate(ns): the next resolution, or the end of the loop
plot_error_for ==
    /\ pc = "for"
    /\ IF index < Len(ns)
       THEN /\ n' = ns[index + 1]
            /\ index' = index + 1
            /\ pc' = "build"
       ELSE /\ pc' = "fit"
            /\ UNCHANGED << n, index >>
    /\ UNCHANGED << kernel_func, lamb, A, g_vec, sol, kappa, f_vec, err,
                    console, coeffs, saved, callrets >>

\* A = cross_correlation(n, kernel, lamb)
plot_error_build ==
    /\ pc = "build"
    /\ A' = [fn |-> "cross_correlation", n |-> n, kernel |-> kernel_func,
             lamb |-> lamb]
    /\ pc' = "discretize_g"
    /\ UNCHANGED << n, kernel_func, lamb, index, g_vec, sol, kappa, f_vec,
                    err, console, coeffs, saved, callrets >>

\* g_vec = discretized_g(lamb, n)
plot_error_discretize_g ==
    /\ pc = "discretize_g"
    /\ g_vec' = [fn |-> "discretized_g", lamb |-> lamb, n |-> n]
    /\ pc' = "solve"
    /\ UNCHANGED << n, kernel_func, lamb, index, A, sol, kappa, f_vec, err,
                    console, coeffs, saved, callrets >>

\* sol = np.reshape(np.linalg.inv(A)@np.array([g_vec]).T,-1)
plot_error_solve ==
    /\ pc = "solve"
    /\ sol' = [fn |-> "solve", A |-> A, g_vec |-> g_vec]
    /\ pc' = "eig"
    /\ UNCHANGED << n, kernel_func, lamb, index, A, g_vec, kappa, f_vec, err,
                    console, coeffs, saved, callrets >>

\* eigs, _ = np.linalg.eig(A); kappa = max|eigs| / min|eigs|
plot_error_eig ==
    /\ pc = "eig"
    /\ kappa' = [fn |-> "kappa", A |-> A]
    /\ pc' = "print"
    /\ UNCHANGED << n, kernel_func, lamb, index, A, g_vec, sol, f_vec, err,
                    console, coeffs, saved, callrets >>

\* print("n = " + str(n)); print("Condition number = " + ...)
plot_error_print ==
    /\ pc = "print"
    /\ console' = Append(console, [n |-> n, kappa |-> kappa])
    /\ pc' = "discretize_f"
    /\ UNCHANGED << n, kernel_func, lamb, index, A, g_vec, sol, kappa, f_vec,
                    err, coeffs, saved, callrets >>

\* f_vec = discretized_f(n)
plot_error_discretize_f ==
    /\ pc = "discretize_f"
    /\ f_vec' = [fn |-> "discretized_f", n |-> n]
    /\ pc' = "append"
    /\ UNCHANGED << n, kernel_func, lamb, index, A, g_vec, sol, kappa, err,
                    console, coeffs, saved, callrets >>

\* err.append(np.mean(np.abs(sol-f_vec)))
plot_error_append ==
    /\ pc = "append"
    /\ err' = Append(err, [fn |-> "mean_abs", sol |-> sol, f_vec |-> f_vec])
    /\ pc' = "for"
    /\ UNCHANGED << n, kernel_func, lamb, index, A, g_vec, sol, kappa, f_vec,
                    console, coeffs, saved, callrets >>

\* err = np.array(err); coeffs = np.polyfit(log10(ns), log10(err), deg=1)
plot_error_fit ==
    /\ pc = "fit"
    /\ coeffs' = [fn |-> "polyfit", ns |-> ns, err |-> err]
    /\ pc' = "plot"
    /\ UNCHANGED << n, kernel_func, lamb, index, A, g_vec, sol, kappa, f_vec,
                    err, console, saved, callrets >>

\* the plot calls and plt.savefig("error.pdf")
plot_error_plot ==
    /\ pc = "plot"
    /\ saved' = "error.pdf"
    /\ pc' = "done"
    /\ UNCHANGED << n, kernel_func, lamb, index, A, g_vec, sol, kappa, f_vec,
                    err, console, coeffs, callrets >>

Next ==
    \/ call_cross_correlation
    \/ call_get_filter
    \/ call_discretized_f
    \/ call_discretized_g
    \/ call_g
    \/ plot_error_start
    \/ plot_error_for
    \/ plot_error_build
    \/ plot_error_discretize_g
    \/ plot_error_solve
    \/ plot_error_eig
    \/ plot_error_print
    \/ plot_error_discretize_f
    \/ plot_error_append
    \/ plot_error_fit
    \/ plot_error_plot

Spec == Init /\ [][Next]_vars

\* ------------------------------------------------------------ properties
Indices(k) == 0 .. (k * k - 1)

\* the grid {0, 1/k, ..., (k-1)/k}^2
Grid(k) == { << Rat(a, k), Rat(b, k) >> : a, b \in 0 .. (k - 1) }

\* C1: for n >= 1 the index-to-point mapping of matrix_entry is a bijection
\* from 0 .. n^2-1 onto the grid: it produces grid points only, every grid
\* point comes from exactly one index, and distinct indices give distinct
\* points.
C1_PointBijection ==
    (pc = "calls" /\ n >= 1) =>
        /\ \A i \in Indices(n) : point(i, n) \in Grid(n)
        /\ \A p \in Grid(n) :
              Cardinality({ i \in Indices(n) : point(i, n) = p }) = 1
        /\ \A i, j \in Indices(n) : i # j => point(i, n) # point(j, n)

C1_Witness ==
    /\ pc = "calls"
    /\ n = 3
    /\ ret_cross_correlation.outcome = "returned"
    /\ point(5, n) = << Rat(1, 3), Rat(2, 3) >>

\* the distance matrix_entry computes between the points of two indices
dist(i, j, k) == distance(diff(point(i, k), point(j, k)))

\* C2: for all lattice points p, q of any n >= 1 the wrap-around Manhattan
\* distance is symmetric, is 0 from a point to itself, and lies in [0, 1].
C2_DistanceMetric ==
    (pc = "calls" /\ n >= 1) =>
        \A i, j \in Indices(n) :
            /\ dist(i, j, n) = dist(j, i, n)
            /\ dist(i, i, n) = Rat(0, 1)
            /\ dist(i, j, n).num >= 0
            /\ dist(i, j, n).num <= dist(i, j, n).den

\* a matrix was built whose entries include a pair at the largest distance 1
\* and a pair whose coordinate difference 3/4 wraps to 1/4
C2_Witness ==
    /\ pc = "calls"
    /\ n = 4
    /\ ret_cross_correlation.outcome = "returned"
    /\ ret_cross_correlation.value[0][10].at = Rat(1, 1)
    /\ ret_cross_correlation.value[0][3].at = Rat(1, 4)

\* the toroidal distance of the specification between the points of two
\* indices, in whole steps of 1/k: per axis d if d < 1/2 else 1 - d
TorusAxis(a, b, k) ==
    LET d == Abs(a - b) IN IF 2 * d < k THEN d ELSE k - d
toroidal_distance(i, j, k) ==
    Rat(TorusAxis(i \div k, j \div k, k) + TorusAxis(i % k, j % k, k), k)

\* C3: for n >= 1 cross_correlation returns an n^2 x n^2 matrix with
\* A[i,j] = (lambda/n^2) * kernel(toroidal_distance(point(i), point(j)))
\* off the diagonal and 1 more on it, so a diagonal entry is
\* 1 + lambda*kernel(0)/n^2; for n = 4, lambda = 1 and exp_kernel,
\* A[0,0] = 1.0625 and A[0,1] is taken at distance 0.25.
C3_OperatorEntries ==
    (pc = "calls" /\ n >= 1 /\ ret_cross_correlation.outcome # "pending") =>
        /\ ret_cross_correlation.outcome = "returned"
        /\ DOMAIN ret_cross_correlation.value = Indices(n)
        /\ \A i \in Indices(n) :
              DOMAIN ret_cross_correlation.value[i] = Indices(n)
        /\ \A i, j \in Indices(n) :
              ret_cross_correlation.value[i][j] =
                  [c  |-> Rat(IF i = j THEN 1 ELSE 0, 1),
                   k  |-> Rat(lamb, n * n),
                   fn |-> kernel_func,
                   at |-> toroidal_distance(i, j, n)]
        /\ \A i \in Indices(n) :
              /\ ret_cross_correlation.value[i][i].at = Rat(0, 1)
              /\ kernel_func = "exp_kernel" =>
                    exp_kernel_at_zero(ret_cross_correlation.value[i][i])
                        = Rat(n * n + lamb, n * n)
        /\ (n = 4 /\ lamb = 1 /\ kernel_func = "exp_kernel") =>
              /\ exp_kernel_at_zero(ret_cross_correlation.value[0][0])
                    = Rat(10625, 10000)
              /\ ret_cross_correlation.value[0][1].at = Rat(25, 100)

C3_Witness ==
    /\ pc = "calls"
    /\ n = 4
    /\ lamb = 1
    /\ kernel_func = "exp_kernel"
    /\ ret_cross_correlation.outcome = "returned"
    /\ ret_cross_correlation.value[0][1].k = Rat(1, 16)

\* C4: with n <= 0 the operator builder and the discretizers end in an
\* error and never return a matrix or a vector.
C4_InvalidResolutionRejected ==
    (pc = "calls" /\ n <= 0) =>
        /\ ret_cross_correlation.outcome \in {"pending", "raised"}
        /\ ret_discretized_f.outcome \in {"pending", "raised"}
        /\ ret_discretized_g.outcome \in {"pending", "raised"}

\* C5: g raises, and returns no value, when x or y lies outside [0, 1];
\* for x and y in [0, 1] it returns a value and each argument selects
\* exactly one of the two branches: [0, 0.5) or [0.5, 1].
C5_ForcingDomain ==
    (pc = "g" /\ ret_g.outcome # "pending") =>
        LET outside(r) == r.num < 0 \/ r.num > r.den
            branch(r) == IF 2 * r.num < r.den THEN "low" ELSE "high"
        IN  IF outside(x) \/ outside(y)
            THEN ret_g = [outcome |-> "raised", value |-> << >>]
            ELSE /\ ret_g.outcome = "returned"
                 /\ ret_g.value.hx.branch = branch(x)
                 /\ ret_g.value.hy.branch = branch(y)
                 /\ ret_g.value.hx.at = x
                 /\ ret_g.value.hy.at = y

\* g was evaluated at the branch point x = 0.5 and at the end point y = 1
C5_Witness ==
    /\ pc = "g"
    /\ ret_g.outcome = "returned"
    /\ x = Rat(1, 2)
    /\ y = Rat(1, 1)
    /\ ret_g.value.hx.branch = "high"

\* C6: for n >= 1 discretized_f(n) and discretized_g(lambda, n) return
\* vectors of length n^2 whose component at index k = i*n + j is the
\* function at (i/n, j/n), the lattice point matrix_entry gives index k.
C6_DiscretizedVectors ==
    (pc = "calls" /\ n >= 1) =>
        /\ ret_discretized_f.outcome # "pending" =>
              /\ ret_discretized_f.outcome = "returned"
              /\ Len(ret_discretized_f.value) = n * n
              /\ \A i, j \in 0 .. (n - 1) :
                    ret_discretized_f.value[i * n + j + 1]
                        = f(Rat(i, n), Rat(j, n))
              /\ \A k \in Indices(n) :
                    ret_discretized_f.value[k + 1]
                        = f(point(k, n)[1], point(k, n)[2])
        /\ ret_discretized_g.outcome # "pending" =>
              /\ ret_discretized_g.outcome = "returned"
              /\ Len(ret_discretized_g.value) = n * n
              /\ \A i, j \in 0 .. (n - 1) :
                    ret_discretized_g.value[i * n + j + 1]
                        = g(Rat(i, n), Rat(j, n), lamb).value
              /\ \A k \in Indices(n) :
                    ret_discretized_g.value[k + 1]
                        = g(point(k, n)[1], point(k, n)[2], lamb).value

\* both vectors were built for n = 3; component 5 is the function at
\* (1/3, 2/3): f = (8/27)(10/27), and g takes the low and the high branch
C6_Witness ==
    /\ pc = "calls"
    /\ n = 3
    /\ ret_discretized_f.outcome = "returned"
    /\ ret_discretized_g.outcome = "returned"
    /\ ret_discretized_f.value[6] = Rat(80, 729)
    /\ ret_discretized_g.value[6].hx.branch = "low"
    /\ ret_discretized_g.value[6].hy.branch = "high"

\* C9: for n >= 1 the operator matrix is symmetric.
C9_OperatorSymmetric ==
    (pc = "calls" /\ n >= 1 /\ ret_cross_correlation.outcome = "returned") =>
        \A i, j \in Indices(n) :
            ret_cross_correlation.value[i][j] = ret_cross_correlation.value[j][i]

\* a 9 x 9 matrix with an off-diagonal pair whose coordinate difference wraps
C9_Witness ==
    /\ pc = "calls"
    /\ n = 3
    /\ lamb = 2
    /\ ret_cross_correlation.outcome = "returned"
    /\ ret_cross_correlation.value[0][2].at = Rat(1, 3)
    /\ ret_cross_correlation.value[2][0].at = Rat(1, 3)

ErrorAt(r) ==
    [fn    |-> "mean_abs",
     sol   |-> [fn    |-> "solve",
                A     |-> [fn |-> "cross_correlation", n |-> r,
                           kernel |-> "exp_kernel", lamb |-> 1],
                g_vec |-> [fn |-> "discretized_g", lamb |-> 1, n |-> r]],
     f_vec |-> [fn |-> "discretized_f", n |-> r]]

Resolutions == << 4, 8, 16, 32, 64 >>
InLoopBody ==
    pc \in {"build", "discretize_g", "solve", "eig", "print", "discretize_f",
            "append"}
AfterLoop == pc \in {"fit", "plot", "done"}

\* the state part of C8: the resolutions come in the order 4, 8, 16, 32,
\* 64; while one is processed the series holds one entry per resolution
\* completed before it, each built from that resolution's own matrix and
\* vectors; a build starts only when the resolution before it was solved,
\* reported and recorded; the fit is given all five entries
ErrorStudyState ==
    (InLoopBody \/ AfterLoop \/ pc = "for") =>
        /\ index \in 0 .. 5
        /\ Len(err) = (IF InLoopBody THEN index - 1 ELSE index)
        /\ \A k \in 1 .. Len(err) : err[k] = ErrorAt(Resolutions[k])
        /\ InLoopBody => n = Resolutions[index]
        /\ Len(console) =
              (IF pc \in {"build", "discretize_g", "solve", "eig", "print"}
               THEN index - 1 ELSE index)
        /\ \A k \in 1 .. Len(console) : console[k].n = Resolutions[k]
        /\ AfterLoop => Len(err) = 5
        /\ pc \in {"plot", "done"} => (coeffs.err = err /\ Len(coeffs.err) = 5)

\* C8: plot_error processes 4, 8, 16, 32, 64 in that order, each to
\* completion before the next build; the error series is append-only, holds
\* one entry per completed resolution in processing order and nothing of
\* an earlier resolution enters a later entry; it has five entries when the
\* fit and the plot are made.
C8_ErrorStudyOrder ==
    /\ [] ErrorStudyState
    /\ [][/\ Len(err') >= Len(err)
          /\ SubSeq(err', 1, Len(err)) = err]_vars

\* the study has finished: five entries, the last for resolution 64, after
\* stale locals of resolution 32 were overwritten
C8_Witness ==
    /\ pc = "done"
    /\ Len(err) = 5
    /\ err[5].f_vec.n = 64
    /\ err[4].sol.A.n = 32
    /\ saved = "error.pdf"

====
